---- MODULE Spec2Model ----
(***************************************************************************)
(* A model of src/main.py: the HuffmanCoding class (static Huffman coding  *)
(* of a text file), the files it reads and writes, and the heapq calls it  *)
(* makes.                                                                  *)
(*                                                                         *)
(* Encoding of Python values:                                              *)
(*   str        a sequence of one-character strings ("" is << >>)          *)
(*   dict       a sequence of <<key, value>> pairs in insertion order      *)
(*   HeapNode   a record [char, freq, left, right]                         *)
(*   None       NoneStr where a str is expected, NoneNode where a HeapNode *)
(*              is expected                                                *)
(*   a file     a record [exists, data]                                    *)
(***************************************************************************)
EXTENDS Integers, Sequences, FiniteSets, TLC

VARIABLES
    heap,                \* self.heap
    frequency,           \* self.frequency
    codes,               \* self.codes
    reverse_mapping,     \* self.reverse_mapping
    input_txt,           \* the file input.txt as read by compress
    input_bin,           \* the file input.bin
    input_codes,         \* the file input_codes.txt
    output_txt,          \* the file input_decompressed.txt
    encoded_text,        \* compress: encoded_text; decompress: remove_padding's result
    padded_encoded_text, \* compress: padded_encoded_text
    current_code,        \* decode_text: current_code when the loop ends
    status,              \* how the last call ended: "ok" or the exception raised
    last,                \* the last method called on the instance
    calls,               \* number of compress calls made on the instance
    pc,                  \* position inside compress (tree construction steps)
    merges               \* iterations of the merge_nodes loop so far

vars == <<heap, frequency, codes, reverse_mapping, input_txt, input_bin,
          input_codes, output_txt, encoded_text, padded_encoded_text,
          current_code, status, last, calls, pc, merges>>

(***************************************************************************)
(* Bounds of the model.                                                    *)
(***************************************************************************)
\* the longest text input.txt holds
MaxLen == 3
\* the compress calls made on the instance
MaxCalls == 2
\* the most distinct symbols of a frequency map of the tree construction runs
MaxSyms == 4
\* the frequencies of those maps are 1..MaxFreq and 8
MaxFreq == 4
\* the longest encoded bit string of the packing and decoding runs
MaxBits == 9

\* The symbols texts are made of: two letters, newline, space and tab.
Alphabet == <<"a", "b", "\n", " ", "\t">>

\* The symbols of the frequency maps of the tree construction runs.
TreeSymbols == <<"a", "b", "c", "d", "e", "f">>

(***************************************************************************)
(* Python values.                                                          *)
(***************************************************************************)
NoneStr == <<"None">>
NoneNode == [none |-> TRUE]
NoFile == [exists |-> FALSE, data |-> <<>>]
File(data) == [exists |-> TRUE, data |-> data]

Max(a, b) == IF a >= b THEN a ELSE b

\* s[i:j] for 0-based i, j already clipped by the caller to 0..len(s)
Slice(s, i, j) == IF j <= i THEN << >> ELSE SubSeq(s, i + 1, j)

\* key in d
DictHas(d, k) == \E i \in 1..Len(d) : d[i][1] = k

\* d[key]
DictGet(d, k) == d[CHOOSE i \in 1..Len(d) : d[i][1] = k][2]

\* d[key] = value: an existing key keeps its position, a new key goes last
DictSet(d, k, v) ==
    IF DictHas(d, k)
    THEN [i \in 1..Len(d) |-> IF d[i][1] = k THEN <<k, v>> ELSE d[i]]
    ELSE Append(d, <<k, v>>)

DictKeys(d) == {d[i][1] : i \in 1..Len(d)}

(***************************************************************************)
(* HeapNode and heapq.                                                     *)
(***************************************************************************)
HeapNode(char, freq) ==
    [char |-> char, freq |-> freq, left |-> NoneNode, right |-> NoneNode]

\* HeapNode.__lt__
Lt(self, other) == self.freq < other.freq

\* heapq._siftdown(heap, startpos, pos), newitem = heap[pos]
RECURSIVE SiftDown(_, _, _, _)
SiftDown(h, startpos, pos, newitem) ==
    IF pos > startpos
    THEN LET parentpos == (pos - 1) \div 2
             parent == h[parentpos + 1]
         IN  IF Lt(newitem, parent)
             THEN SiftDown([h EXCEPT ![pos + 1] = parent], startpos, parentpos, newitem)
             ELSE [h EXCEPT ![pos + 1] = newitem]
    ELSE [h EXCEPT ![pos + 1] = newitem]

\* heapq._siftup(heap, pos): the loop that moves the smaller child up, then
\* the _siftdown that puts newitem in place
RECURSIVE SiftUp(_, _, _, _)
SiftUp(h, startpos, pos, newitem) ==
    LET endpos == Len(h)
        leftpos == 2 * pos + 1
        rightpos == leftpos + 1
        childpos == IF rightpos < endpos /\ ~Lt(h[leftpos + 1], h[rightpos + 1])
                    THEN rightpos ELSE leftpos
    IN  IF leftpos < endpos
        THEN SiftUp([h EXCEPT ![pos + 1] = h[childpos + 1]], startpos, childpos, newitem)
        ELSE SiftDown([h EXCEPT ![pos + 1] = newitem], startpos, pos, newitem)

\* heapq.heappush(heap, item)
HeapPush(h, item) ==
    LET h1 == Append(h, item)
    IN  SiftDown(h1, 0, Len(h1) - 1, item)

\* a heappop that returns the last item of the list instead of the smallest
HeapPopLast(h) == [item |-> h[Len(h)], heap |-> SubSeq(h, 1, Len(h) - 1)]

\* heapq.heappop(heap): [item |-> the item returned, heap |-> the heap left]
HeapPop(h) ==
    LET lastelt == h[Len(h)]
        rest == SubSeq(h, 1, Len(h) - 1)
    IN  IF rest # << >>
        THEN [item |-> rest[1],
              heap |-> SiftUp([rest EXCEPT ![1] = lastelt], 0, 0, lastelt)]
        ELSE [item |-> lastelt, heap |-> rest]

(***************************************************************************)
(* Frequency Counter and Tree Builder.                                     *)
(***************************************************************************)
\* Counter(text): one entry per distinct character, in order of first occurrence
RECURSIVE CountFrom(_, _, _)
CountFrom(text, i, d) ==
    IF i > Len(text) THEN d
    ELSE LET k == <<text[i]>>
         IN  CountFrom(text, i + 1,
                       DictSet(d, k, IF DictHas(d, k) THEN DictGet(d, k) + 1 ELSE 1))

MakeFrequencyDict(text) == CountFrom(text, 1, << >>)

\* make_heap: push one leaf per key of frequency, in the dict's order
RECURSIVE MakeHeapFrom(_, _, _)
MakeHeapFrom(h, freq, i) ==
    IF i > Len(freq) THEN h
    ELSE MakeHeapFrom(HeapPush(h, HeapNode(freq[i][1], freq[i][2])), freq, i + 1)

MakeHeap(h, freq) == MakeHeapFrom(h, freq, 1)

\* the merged node with its children the wrong way round
MergedSwapped(node1, node2) ==
    [char |-> NoneStr, freq |-> node1.freq + node2.freq, left |-> node2, right |-> node1]

\* HeapNode(None, node1.freq + node2.freq) with left = node1, right = node2
Merged(node1, node2) ==
    [char |-> NoneStr, freq |-> node1.freq + node2.freq, left |-> node1, right |-> node2]

\* one iteration of the loop of merge_nodes
MergeOnce(h) ==
    LET p1 == HeapPop(h)
        p2 == HeapPop(p1.heap)
    IN  HeapPush(p2.heap, Merged(p1.item, p2.item))

\* merge_nodes: while len(self.heap) > 1
RECURSIVE MergeNodes(_)
MergeNodes(h) == IF Len(h) > 1 THEN MergeNodes(MergeOnce(h)) ELSE h

(***************************************************************************)
(* Code Table Generator.                                                   *)
(***************************************************************************)
\* make_codes_helper that forgets the "1" of the right branch
RECURSIVE MakeCodesHelperNoBit(_, _, _)
MakeCodesHelperNoBit(root, code, t) ==
    IF root = NoneNode THEN t
    ELSE LET t1 == IF root.char # NoneStr
                   THEN [codes |-> DictSet(t.codes, root.char, code),
                         reverse_mapping |-> DictSet(t.reverse_mapping, code, root.char)]
                   ELSE t
             t2 == MakeCodesHelperNoBit(root.left, code \o <<"0">>, t1)
         IN  MakeCodesHelperNoBit(root.right, code, t2)

\* make_codes_helper(root, current_code) on t = [codes, reverse_mapping]
RECURSIVE MakeCodesHelper(_, _, _)
MakeCodesHelper(root, code, t) ==
    IF root = NoneNode THEN t
    ELSE LET t1 == IF root.char # NoneStr
                   THEN [codes |-> DictSet(t.codes, root.char, code),
                         reverse_mapping |-> DictSet(t.reverse_mapping, code, root.char)]
                   ELSE t
             t2 == MakeCodesHelper(root.left, code \o <<"0">>, t1)
         IN  MakeCodesHelper(root.right, code \o <<"1">>, t2)

\* make_codes: root = heappop(self.heap); the helper starts from ""
MakeCodes(h, t) ==
    LET p == HeapPop(h)
    IN  [heap |-> p.heap, table |-> MakeCodesHelper(p.item, << >>, t)]

(***************************************************************************)
(* Bit Packer.                                                             *)
(***************************************************************************)
\* get_encoded_text: the codes of the characters of text, concatenated
RECURSIVE GetEncodedTextFrom(_, _, _)
GetEncodedTextFrom(cs, text, i) ==
    IF i > Len(text) THEN << >>
    ELSE DictGet(cs, <<text[i]>>) \o GetEncodedTextFrom(cs, text, i + 1)

GetEncodedText(cs, text) == GetEncodedTextFrom(cs, text, 1)

Zeros(n) == [i \in 1..n |-> "0"]

\* the binary digits of n >= 0, most significant first ("0" for 0)
RECURSIVE ToBin(_)
ToBin(n) ==
    LET d == IF n % 2 = 1 THEN <<"1">> ELSE <<"0">>
    IN  IF n < 2 THEN d ELSE ToBin(n \div 2) \o d

\* "{0:08b}".format(n) and bin(n)[2:].rjust(8, '0')
Format08b(n) == LET b == ToBin(n) IN Zeros(Max(0, 8 - Len(b))) \o b

\* int(s, 2) for a non-empty s of binary digits
RECURSIVE BitsToInt(_)
BitsToInt(s) ==
    IF s = << >> THEN 0
    ELSE 2 * BitsToInt(SubSeq(s, 1, Len(s) - 1)) + (IF s[Len(s)] = "1" THEN 1 ELSE 0)

\* a padding length that is 0 for a length that is a multiple of 8
ExtraPaddingMod(e) == (8 - (Len(e) % 8)) % 8

\* extra_padding = 8 - len(encoded_text) % 8
ExtraPadding(e) == 8 - (Len(e) % 8)

\* pad_encoded_text
PadEncodedText(e) == Format08b(ExtraPadding(e)) \o e \o Zeros(ExtraPadding(e))

\* get_byte_array: exit(0) when the length is no multiple of 8
RECURSIVE BytesFrom(_, _)
BytesFrom(p, i) ==
    IF i >= Len(p) THEN << >>
    ELSE <<BitsToInt(Slice(p, i, IF i + 8 <= Len(p) THEN i + 8 ELSE Len(p)))>>
         \o BytesFrom(p, i + 8)

GetByteArray(p) ==
    IF Len(p) % 8 # 0
    THEN [status |-> "SystemExit", b |-> << >>]
    ELSE [status |-> "ok", b |-> BytesFrom(p, 0)]

(***************************************************************************)
(* Persisted code table.                                                   *)
(***************************************************************************)
\* the char written by output_codes: newline and space are escaped
Escape(char) ==
    IF char = <<"\n">> THEN <<"\\", "n">>
    ELSE IF char = <<" ">> THEN <<"\\", "s">>
    ELSE char

\* output_codes: f"{char} {code}\n" for every item of self.codes
RECURSIVE OutputCodesFrom(_, _)
OutputCodesFrom(cs, i) ==
    IF i > Len(cs) THEN << >>
    ELSE Escape(cs[i][1]) \o <<" ">> \o cs[i][2] \o <<"\n">> \o OutputCodesFrom(cs, i + 1)

OutputCodes(cs) == OutputCodesFrom(cs, 1)

\* the characters str.strip() and str.split() treat as whitespace
IsSpace(c) == c \in {" ", "\t", "\n", "\r", "\f"}

\* for line in file: the lines of the text, each with its newline
RECURSIVE ReadLines(_, _, _)
ReadLines(data, i, cur) ==
    IF i > Len(data) THEN (IF cur = << >> THEN << >> ELSE <<cur>>)
    ELSE IF data[i] = "\n" THEN <<Append(cur, "\n")>> \o ReadLines(data, i + 1, << >>)
    ELSE ReadLines(data, i + 1, Append(cur, data[i]))

\* line.strip()
RECURSIVE LStrip(_)
LStrip(s) == IF s # << >> /\ IsSpace(s[1]) THEN LStrip(Tail(s)) ELSE s

RECURSIVE RStrip(_)
RStrip(s) ==
    IF s # << >> /\ IsSpace(s[Len(s)]) THEN RStrip(SubSeq(s, 1, Len(s) - 1)) ELSE s

Strip(s) == RStrip(LStrip(s))

\* s.split(): the maximal runs of non-whitespace characters
RECURSIVE SplitFrom(_, _, _)
SplitFrom(s, i, cur) ==
    IF i > Len(s) THEN (IF cur = << >> THEN << >> ELSE <<cur>>)
    ELSE IF IsSpace(s[i])
         THEN (IF cur = << >> THEN << >> ELSE <<cur>>) \o SplitFrom(s, i + 1, << >>)
         ELSE SplitFrom(s, i + 1, Append(cur, s[i]))

Split(s) == SplitFrom(s, 1, << >>)

\* decode_text, the loop over the lines of the code table:
\* char, code = line.strip().split(); self.reverse_mapping[code] = char
\* (ValueError unless the line has exactly two fields)
RECURSIVE LoadTable(_, _, _)
LoadTable(rm, lines, i) ==
    IF i > Len(lines) THEN [status |-> "ok", reverse_mapping |-> rm]
    ELSE LET fields == Split(Strip(lines[i]))
         IN  IF Len(fields) # 2
             THEN [status |-> "ValueError", reverse_mapping |-> rm]
             ELSE LoadTable(DictSet(rm, fields[2], fields[1]), lines, i + 1)

(***************************************************************************)
(* Bit Unpacker / Decoder.                                                 *)
(***************************************************************************)
\* the bits of the bytes of the file, 8 per byte
RECURSIVE BitString(_, _)
BitString(bytes, i) ==
    IF i > Len(bytes) THEN << >> ELSE Format08b(bytes[i]) \o BitString(bytes, i + 1)

\* remove_padding: s[8:][:-extra_padding] (s[:-0] is s[:0], the empty string)
RemovePadding(s) ==
    LET padded_info == Slice(s, 0, IF Len(s) < 8 THEN Len(s) ELSE 8)
        extra_padding == BitsToInt(padded_info)
        rest == Slice(s, IF Len(s) < 8 THEN Len(s) ELSE 8, Len(s))
    IN  Slice(rest, 0, Max(0, Len(rest) - extra_padding))

\* the character decode_text appends for a table entry
Unescape(character) ==
    IF character = <<"\\", "n">> THEN <<"\n">>
    ELSE IF character = <<"\\", "s">> THEN <<" ">>
    ELSE character

\* decode_text, the loop over the bits
RECURSIVE DecodeLoop(_, _, _, _, _)
DecodeLoop(rm, bits, i, cc, decoded) ==
    IF i > Len(bits) THEN [decoded_text |-> decoded, current_code |-> cc]
    ELSE LET cc1 == Append(cc, bits[i])
         IN  IF DictHas(rm, cc1)
             THEN DecodeLoop(rm, bits, i + 1, << >>, decoded \o Unescape(DictGet(rm, cc1)))
             ELSE DecodeLoop(rm, bits, i + 1, cc1, decoded)

\* decode_text(encoded_text, input_codes_path)
DecodeText(rm, bits, table) ==
    IF ~table.exists
    THEN [status |-> "FileNotFoundError", reverse_mapping |-> rm,
          decoded_text |-> << >>, current_code |-> << >>]
    ELSE LET loaded == LoadTable(rm, ReadLines(table.data, 1, << >>), 1)
             d == DecodeLoop(loaded.reverse_mapping, bits, 1, << >>, << >>)
         IN  IF loaded.status # "ok"
             THEN [status |-> loaded.status, reverse_mapping |-> loaded.reverse_mapping,
                   decoded_text |-> << >>, current_code |-> << >>]
             ELSE [status |-> "ok", reverse_mapping |-> loaded.reverse_mapping,
                   decoded_text |-> d.decoded_text, current_code |-> d.current_code]

\* the body of decompress once input.bin is open: the output file is opened
\* (and so emptied) before anything is decoded, and written only at the end
DecompressBody(rm, bytes, table) ==
    LET bit_string == BitString(bytes, 1)
        enc == RemovePadding(bit_string)
        r == DecodeText(rm, enc, table)
    IN  IF bit_string = << >>
        THEN [status |-> "ValueError", reverse_mapping |-> rm, encoded_text |-> << >>,
              current_code |-> << >>, output |-> File(<< >>)]
        ELSE [status |-> r.status, reverse_mapping |-> r.reverse_mapping,
              encoded_text |-> enc, current_code |-> r.current_code,
              output |-> File(r.decoded_text)]

(***************************************************************************)
(* Metrics Calculator (the part that is integer arithmetic).               *)
(***************************************************************************)
\* calculate_metrics: total_length, the sum of len(codes[char]) * freq
RECURSIVE TotalLengthFrom(_, _, _)
TotalLengthFrom(cs, freq, i) ==
    IF i > Len(freq) THEN 0
    ELSE Len(DictGet(cs, freq[i][1])) * freq[i][2] + TotalLengthFrom(cs, freq, i + 1)

TotalLength(cs, freq) == TotalLengthFrom(cs, freq, 1)

\* calculate_metrics: total_chars, the sum of the frequencies
RECURSIVE TotalChars(_)
TotalChars(freq) ==
    IF freq = << >> THEN 0 ELSE freq[1][2] + TotalChars(Tail(freq))

(***************************************************************************)
(* The program: one HuffmanCoding instance and the files of its directory. *)
(***************************************************************************)
\* the texts input.txt may hold
Texts == UNION {[1..k -> {Alphabet[i] : i \in 1..Len(Alphabet)}] : k \in 0..MaxLen}

\* h = HuffmanCoding(), in a directory where no output file exists yet
Init ==
    /\ heap = << >>
    /\ frequency = << >>
    /\ codes = << >>
    /\ reverse_mapping = << >>
    /\ input_txt = << >>
    /\ input_bin = NoFile
    /\ input_codes = NoFile
    /\ output_txt = NoFile
    /\ encoded_text = << >>
    /\ padded_encoded_text = << >>
    /\ current_code = << >>
    /\ status = "ok"
    /\ last = "init"
    /\ calls = 0
    /\ pc = "idle"
    /\ merges = 0

\* compress(input_path) with input.txt holding text
Compress(text) ==
    /\ pc = "idle"
    /\ calls < MaxCalls
    /\ calls' = calls + 1
    /\ last' = "compress"
    /\ input_txt' = text
    /\ IF text = << >>
       THEN /\ input_bin' = File(<<10>>)
            /\ status' = "ok"
            /\ UNCHANGED <<heap, frequency, codes, reverse_mapping, input_codes,
                           encoded_text, padded_encoded_text>>
       ELSE LET freq == MakeFrequencyDict(text)
                h1 == MakeHeap(heap, freq)
                h2 == MergeNodes(h1)
                mc == MakeCodes(h2, [codes |-> codes, reverse_mapping |-> reverse_mapping])
                enc == GetEncodedText(mc.table.codes, text)
                padded == PadEncodedText(enc)
                ba == GetByteArray(padded)
            IN  /\ frequency' = freq
                /\ heap' = mc.heap
                /\ codes' = mc.table.codes
                /\ reverse_mapping' = mc.table.reverse_mapping
                /\ encoded_text' = enc
                /\ padded_encoded_text' = padded
                /\ status' = ba.status
                /\ input_bin' = File(ba.b)
                /\ input_codes' = IF ba.status = "ok"
                                  THEN File(OutputCodes(mc.table.codes))
                                  ELSE input_codes
    /\ UNCHANGED <<output_txt, current_code, pc, merges>>

\* decompress("input.bin", input_codes_path)
DoDecompress ==
    /\ last' = "decompress"
    /\ IF ~input_bin.exists
       THEN /\ status' = "FileNotFoundError"
            /\ UNCHANGED <<reverse_mapping, output_txt, encoded_text, current_code>>
       ELSE LET r == DecompressBody(reverse_mapping, input_bin.data, input_codes)
            IN  /\ status' = r.status
                /\ reverse_mapping' = r.reverse_mapping
                /\ output_txt' = r.output
                /\ encoded_text' = r.encoded_text
                /\ current_code' = r.current_code
    /\ UNCHANGED <<heap, frequency, codes, input_txt, input_bin, input_codes,
                   padded_encoded_text, calls, merges>>

Decompress ==
    /\ pc = "idle"
    /\ DoDecompress
    /\ UNCHANGED pc

Next ==
    \/ \E text \in Texts : Compress(text)
    \/ Decompress

Spec == Init /\ [][Next]_vars

(***************************************************************************)
(* Tree construction and code assignment, step by step: the calls          *)
(* make_heap, merge_nodes (one loop iteration per step) and make_codes     *)
(* that compress makes on a new instance, for every frequency map of up to *)
(* MaxSyms symbols in every insertion order of the weights.                *)
(***************************************************************************)
FreqVals == (1..MaxFreq) \cup {8}

\* Counter(text) for the texts whose i-th distinct symbol is TreeSymbols[i]
FreqMaps ==
    UNION {{[i \in 1..n |-> <<<<TreeSymbols[i]>>, f[i]>>] : f \in [1..n -> FreqVals]}
           : n \in 1..MaxSyms}

TreeInit ==
    /\ heap = << >>
    /\ frequency \in FreqMaps
    /\ codes = << >>
    /\ reverse_mapping = << >>
    /\ input_txt = << >>
    /\ input_bin = NoFile
    /\ input_codes = NoFile
    /\ output_txt = NoFile
    /\ encoded_text = << >>
    /\ padded_encoded_text = << >>
    /\ current_code = << >>
    /\ status = "ok"
    /\ last = "compress"
    /\ calls = 1
    /\ pc = "make_heap"
    /\ merges = 0

TreeUnchanged ==
    UNCHANGED <<frequency, input_txt, input_bin, input_codes, output_txt, encoded_text,
                padded_encoded_text, current_code, status, last, calls>>

\* self.make_heap(frequency)
TMakeHeap ==
    /\ pc = "make_heap"
    /\ heap' = MakeHeap(heap, frequency)
    /\ pc' = "merge_nodes"
    /\ UNCHANGED <<codes, reverse_mapping, merges>>
    /\ TreeUnchanged

\* merge_nodes: one iteration of the loop, taken while len(self.heap) > 1
TMergeStep ==
    /\ pc = "merge_nodes"
    /\ Len(heap) > 1
    /\ heap' = MergeOnce(heap)
    /\ merges' = merges + 1
    /\ UNCHANGED <<codes, reverse_mapping, pc>>
    /\ TreeUnchanged

\* merge_nodes: the loop condition is false, the method returns
TMergeReturn ==
    /\ pc = "merge_nodes"
    /\ ~(Len(heap) > 1)
    /\ pc' = "make_codes"
    /\ UNCHANGED <<heap, codes, reverse_mapping, merges>>
    /\ TreeUnchanged

\* self.make_codes()
TMakeCodes ==
    /\ pc = "make_codes"
    /\ LET mc == MakeCodes(heap, [codes |-> codes, reverse_mapping |-> reverse_mapping])
       IN  /\ heap' = mc.heap
           /\ codes' = mc.table.codes
           /\ reverse_mapping' = mc.table.reverse_mapping
    /\ pc' = "done"
    /\ UNCHANGED merges
    /\ TreeUnchanged

TreeNext == TMakeHeap \/ TMergeStep \/ TMergeReturn \/ TMakeCodes

SpecTree == TreeInit /\ [][TreeNext]_vars

(***************************************************************************)
(* The Bit Packer on every encoded bit string of up to MaxBits bits:       *)
(* pad_encoded_text, then get_byte_array and the write of input.bin.       *)
(***************************************************************************)
BitStrings(n) == UNION {[1..k -> {"0", "1"}] : k \in 0..n}

PadInit ==
    /\ heap = << >>
    /\ frequency = << >>
    /\ codes = << >>
    /\ reverse_mapping = << >>
    /\ input_txt = << >>
    /\ input_bin = File(<< >>)
    /\ input_codes = NoFile
    /\ output_txt = NoFile
    /\ encoded_text \in BitStrings(MaxBits)
    /\ padded_encoded_text = << >>
    /\ current_code = << >>
    /\ status = "ok"
    /\ last = "compress"
    /\ calls = 1
    /\ pc = "pad_encoded_text"
    /\ merges = 0

PadUnchanged ==
    UNCHANGED <<heap, frequency, codes, reverse_mapping, input_txt, input_codes,
                output_txt, encoded_text, current_code, last, calls, merges>>

\* padded_encoded_text = self.pad_encoded_text(encoded_text)
PPad ==
    /\ pc = "pad_encoded_text"
    /\ padded_encoded_text' = PadEncodedText(encoded_text)
    /\ pc' = "get_byte_array"
    /\ UNCHANGED <<input_bin, status>>
    /\ PadUnchanged

\* b = self.get_byte_array(padded_encoded_text); output.write(bytes(b))
PBytes ==
    /\ pc = "get_byte_array"
    /\ LET ba == GetByteArray(padded_encoded_text)
       IN  /\ status' = ba.status
           /\ input_bin' = File(ba.b)
    /\ pc' = "done"
    /\ UNCHANGED padded_encoded_text
    /\ PadUnchanged

PadNext == PPad \/ PBytes

SpecPad == PadInit /\ [][PadNext]_vars

(***************************************************************************)
(* The Decoder on the files of a directory: input_codes.txt is a table     *)
(* output_codes wrote for some frequency map, input.bin is what compress   *)
(* writes for some encoded bit string of up to MaxBits bits.               *)
(***************************************************************************)
\* the code table a new instance generates for a frequency map
CodesOf(freq) ==
    MakeCodes(MergeNodes(MakeHeap(<< >>, freq)),
              [codes |-> << >>, reverse_mapping |-> << >>]).table.codes

\* frequency maps over the symbols a, b, newline and space, each seen once
DecodeFreqMaps ==
    {[i \in 1..n |-> <<<<Alphabet[i]>>, 1>>] : n \in 2..4}

DecodeInit ==
    /\ heap = << >>
    /\ frequency = << >>
    /\ codes = << >>
    /\ reverse_mapping = << >>
    /\ input_txt = << >>
    /\ \E e \in BitStrings(MaxBits) :
          input_bin = File(GetByteArray(PadEncodedText(e)).b)
    /\ \E f \in DecodeFreqMaps : input_codes = File(OutputCodes(CodesOf(f)))
    /\ output_txt = NoFile
    /\ encoded_text = << >>
    /\ padded_encoded_text = << >>
    /\ current_code = << >>
    /\ status = "ok"
    /\ last = "init"
    /\ calls = 0
    /\ pc = "decompress"
    /\ merges = 0

\* decompress("input.bin", input_codes_path) on a new instance
DDecompress ==
    /\ pc = "decompress"
    /\ DoDecompress
    /\ pc' = "done"

DecodeNext == DDecompress

SpecDecode == DecodeInit /\ [][DecodeNext]_vars

(***************************************************************************)
(* Definitions the properties are stated with.                             *)
(***************************************************************************)
IsPrefix(s, t) == Len(s) <= Len(t) /\ SubSeq(t, 1, Len(s)) = s

Range(s) == {s[i] : i \in 1..Len(s)}

Count(s, x) == Cardinality({i \in 1..Len(s) : s[i] = x})

\* the sequences s and t hold the same elements the same number of times
SameBag(s, t) == \A x \in Range(s) \cup Range(t) : Count(s, x) = Count(t, x)

\* s without the elements at the positions in I
RECURSIVE Without(_, _)
Without(s, I) ==
    IF s = << >> THEN << >>
    ELSE LET front == Without(SubSeq(s, 1, Len(s) - 1), I)
         IN  IF Len(s) \in I THEN front ELSE Append(front, s[Len(s)])

IsLeaf(n) == n.char # NoneStr /\ n.left = NoneNode /\ n.right = NoneNode

IsInternal(n) == n.char = NoneStr /\ n.left # NoneNode /\ n.right # NoneNode

\* every node below n is a leaf or an internal node weighing what its children weigh
RECURSIVE WellFormed(_)
WellFormed(n) ==
    \/ IsLeaf(n)
    \/ /\ IsInternal(n)
       /\ n.freq = n.left.freq + n.right.freq
       /\ WellFormed(n.left)
       /\ WellFormed(n.right)

\* the <<symbol, weight>> pairs of the leaves below n, left to right
RECURSIVE LeafSeq(_)
LeafSeq(n) ==
    IF n.left = NoneNode /\ n.right = NoneNode THEN <<<<n.char, n.freq>>>>
    ELSE (IF n.left = NoneNode THEN << >> ELSE LeafSeq(n.left))
         \o (IF n.right = NoneNode THEN << >> ELSE LeafSeq(n.right))

RECURSIVE Pow2(_)
Pow2(n) == IF n = 0 THEN 1 ELSE 2 * Pow2(n - 1)

MinOf(S) == CHOOSE x \in S : \A y \in S : x <= y

\* the least total payload length of the code-length assignments to the
\* symbols i..Len(freq), each length in 1..L, that fit in what is left of
\* Kraft's sum (budget counts units of 2^-L, and every symbol still to come
\* needs one unit at least). By Kraft's inequality the assignments with
\* sum of 2^-length <= 1 are the length profiles of the prefix-free binary
\* codes.
RECURSIVE MinKraftCost(_, _, _, _)
MinKraftCost(freq, i, L, budget) ==
    IF i > Len(freq) THEN 0
    ELSE MinOf({freq[i][2] * l + MinKraftCost(freq, i + 1, L, budget - Pow2(L - l))
                : l \in {x \in 1..L : Pow2(L - x) + (Len(freq) - i) <= budget}})

\* for two or more symbols; lengths up to one less than their number, the
\* depth no tree without one-child nodes exceeds: a longer word is never cheaper
MinPrefixFreeCost(freq) ==
    MinKraftCost(freq, 1, Len(freq) - 1, Pow2(Len(freq) - 1))

BitVal(c) == IF c = "1" THEN 1 ELSE 0

\* the unsigned value of the first 8 bits of p
HeaderValue(p) ==
    128 * BitVal(p[1]) + 64 * BitVal(p[2]) + 32 * BitVal(p[3]) + 16 * BitVal(p[4])
    + 8 * BitVal(p[5]) + 4 * BitVal(p[6]) + 2 * BitVal(p[7]) + BitVal(p[8])

Compressed == calls >= 1 /\ input_txt # << >>

(***************************************************************************)
(* Properties.                                                             *)
(***************************************************************************)

\* C1: round trip. After compress of a non-empty text, decompress of the
\* bytes and the code table that compress wrote returns normally, writes
\* exactly the text, and the decoder ends with an empty candidate code.
C1_RoundTrip ==
    (last = "decompress" /\ Compressed)
        => /\ status = "ok"
           /\ output_txt = File(input_txt)
           /\ current_code = << >>

\* C2: empty round trip. compress of the empty text writes the single byte
\* 0x0A, and decompress of it succeeds with empty output, whether or not a
\* code table file exists and whatever it holds.
C2_EmptyRoundTrip ==
    (calls >= 1 /\ input_txt = << >>)
        => /\ input_bin = File(<<10>>)
           /\ last = "decompress" => (status = "ok" /\ output_txt = File(<< >>))

\* C3: single-symbol alphabet. For a text that repeats one symbol the symbol
\* gets a non-empty code, and the text round-trips.
C3_SingleSymbol ==
    (Compressed /\ Len(frequency) = 1)
        => /\ \A i \in 1..Len(codes) :
                codes[i][1] = frequency[1][1] => codes[i][2] # << >>
           /\ last = "decompress" => (status = "ok" /\ output_txt = File(input_txt))

\* C5: code assignment coverage. After every compress of a non-empty text
\* the code table has exactly the symbols of that call's frequency map,
\* codes and reverse_mapping are inverse bijections, and the persisted table
\* has one line per symbol of the frequency map.
C5_Coverage ==
    (last = "compress" /\ Compressed)
        => /\ DictKeys(codes) = DictKeys(frequency)
           /\ Len(codes) = Len(frequency)
           /\ \A i \in 1..Len(codes) :
                /\ DictHas(reverse_mapping, codes[i][2])
                /\ DictGet(reverse_mapping, codes[i][2]) = codes[i][1]
           /\ \A i \in 1..Len(reverse_mapping) :
                /\ DictHas(codes, reverse_mapping[i][2])
                /\ DictGet(codes, reverse_mapping[i][2]) = reverse_mapping[i][1]
           /\ input_codes.exists
           /\ Len(ReadLines(input_codes.data, 1, << >>)) = Len(frequency)

\* C7: escaping round trip. For a text that holds newline or space the
\* persisted table names them by the two characters \n and \s, and
\* decompress returns normally with a text that has the original newline
\* and space characters at the original positions.
C7_EscapingRoundTrip ==
    (last = "decompress" /\ Compressed
     /\ \E i \in 1..Len(input_txt) : input_txt[i] \in {"\n", " "})
        => /\ \A c \in {"\n", " "} :
                (\E i \in 1..Len(input_txt) : input_txt[i] = c)
                    => \E j \in 1..Len(ReadLines(input_codes.data, 1, << >>)) :
                          ReadLines(input_codes.data, 1, << >>)[j]
                              = <<"\\", IF c = "\n" THEN "n" ELSE "s", " ">>
                                \o DictGet(codes, <<c>>) \o <<"\n">>
           /\ status = "ok"
           /\ Len(output_txt.data) = Len(input_txt)
           /\ \A i \in 1..Len(input_txt) :
                input_txt[i] \in {"\n", " "} => output_txt.data[i] = input_txt[i]

\* C8: unmatched trailing bits. When the bits are exhausted with a non-empty
\* candidate code, decompress does not return normally: it reports an error.
C8_TrailingBitsReported ==
    (pc = "done" /\ last = "decompress" /\ current_code # << >>) => status # "ok"

C6_PaddingFraming ==
    pc # "pad_encoded_text"
        => LET e == encoded_text
               p == padded_encoded_text
               k == 8 - (Len(e) % 8)
           IN  /\ k \in 1..8
               /\ Len(p) = 8 + Len(e) + k
               /\ \A i \in 1..8 : p[i] \in {"0", "1"}
               /\ HeaderValue(p) = k
               /\ SubSeq(p, 9, 8 + Len(e)) = e
               /\ \A i \in (9 + Len(e))..Len(p) : p[i] = "0"
               /\ Len(p) % 8 = 0
               /\ pc = "done" => (status = "ok" /\ 8 * Len(input_bin.data) = Len(p))

C6_Witness ==
    /\ pc = "done"
    /\ Len(encoded_text) = 8
    /\ HeaderValue(padded_encoded_text) = 8
    /\ status = "ok"

\* the step is an iteration of the loop of merge_nodes
IsMergeStep == pc = "merge_nodes" /\ merges' = merges + 1

\* the iteration took the two lowest-weight nodes out of the heap and put in
\* one internal node: left the first taken, right the second, weight their sum
MergedTwoLowest ==
    \E i \in 1..Len(heap') : \E j, k \in 1..Len(heap) :
        /\ j # k
        /\ heap'[i].char = NoneStr
        /\ heap'[i].left = heap[j]
        /\ heap'[i].right = heap[k]
        /\ heap'[i].freq = heap[j].freq + heap[k].freq
        /\ \A x \in 1..Len(heap) : heap[j].freq <= heap[x].freq
        /\ \A x \in (1..Len(heap)) \ {j} : heap[k].freq <= heap[x].freq
        /\ SameBag(Without(heap', {i}), Without(heap, {j, k}))

\* what holds while and after the tree is built; the loop ends because every
\* iteration takes one node off a heap that never gets empty
TreeBuilt ==
    /\ \A i \in 1..Len(heap) : WellFormed(heap[i])
    /\ pc = "merge_nodes"
         => /\ Len(heap) = Len(frequency) - merges
            /\ Len(heap) >= 1
    /\ pc = "make_codes"
         => /\ merges = Len(frequency) - 1
            /\ Len(heap) = 1
            /\ heap[1].freq = TotalChars(frequency)
            /\ Len(LeafSeq(heap[1])) = Len(frequency)
            /\ Range(LeafSeq(heap[1])) = Range(frequency)

\* C9: tree construction. merge_nodes ends after exactly n - 1 merges with
\* one node in the heap; each merge takes the two lowest-weight nodes and
\* inserts an internal node of their summed weight, left the first taken and
\* right the second; the root weighs the sum of the frequencies, every node
\* is a leaf or an internal node with two children, and each symbol is at
\* exactly one leaf.
C9_TreeConstruction ==
    /\ []TreeBuilt
    /\ [][IsMergeStep => MergedTwoLowest]_vars

C9_Witness ==
    /\ pc = "make_codes"
    /\ merges = 3
    /\ heap[1].left.freq = heap[1].right.freq
    /\ \E i, j \in 1..Len(frequency) : i # j /\ frequency[i][2] = frequency[j][2]

\* the frequency maps of the texts "aaaabbcd" and "aaaaaaaab"
Freq_aaaabbcd == <<<<<<"a">>, 4>>, <<<<"b">>, 2>>, <<<<"c">>, 1>>, <<<<"d">>, 1>>>>
Freq_aaaaaaaab == <<<<<<"a">>, 8>>, <<<<"b">>, 1>>>>

\* C10: optimality. For a frequency map of two or more symbols, in whatever
\* order equal weights entered the heap, the payload length (the sum of
\* frequency times code length) is the least any prefix-free binary code
\* achieves; "aaaabbcd" gets code lengths 1, 2, 3, 3 and 14 bits, and
\* "aaaaaaaab" fewer than 8 bits per symbol.
C10_Optimal ==
    (pc = "done" /\ Len(frequency) >= 2)
        => /\ TotalLength(codes, frequency) = MinPrefixFreeCost(frequency)
           /\ frequency = Freq_aaaabbcd
                => /\ [i \in 1..4 |-> Len(DictGet(codes, frequency[i][1]))] = <<1, 2, 3, 3>>
                   /\ TotalLength(codes, frequency) = 14
           /\ frequency = Freq_aaaaaaaab
                => TotalLength(codes, frequency) < 8 * TotalChars(frequency)

C10_Witness ==
    /\ pc = "done"
    /\ frequency = Freq_aaaabbcd
    /\ TotalLength(codes, frequency) = 14

====
